---- MODULE Spec2Model ----
(***************************************************************************)
(* Model of the notification core of the air-quality service:              *)
(* NotificationService (subscriber registry, alert analysis, dispatch with *)
(* cooldown, notification history) and the notification routes.            *)
(*                                                                         *)
(* Time is counted in minutes.  Locations lie on one meridian and are      *)
(* given by their position in km along it, so that the haversine distance  *)
(* of two locations is the absolute difference of their positions.         *)
(* An async function runs without interruption up to its next await; every *)
(* await is a point where other callbacks may run.                         *)
(***************************************************************************)
EXTENDS Integers, Sequences, FiniteSets, TLC

VARIABLES
  now,                  \* the wall clock (Date.now / moment()), in minutes
  objs,                 \* the subscription objects ever created, by identity
  subscribers,          \* this.subscribers: userId -> [obj, stamp]
  notificationHistory,  \* this.notificationHistory
  calls,                \* the async invocations (checkAndSendAlerts, testNotification)
  sendLog,              \* one record per sendAlerts invocation: what it did
  response,             \* the last getNotificationHistory response
  script,               \* position in a scripted scenario ("free": no script)
  cache,                \* this.cache of a data service: the entry of one key
  fetches,              \* the fetch calls suspended at their upstream await
  fetchLog,             \* one record per fetch call: what it did
  models,               \* ForecastService.models: the pollutants that have a model
  forecastCache,        \* ForecastService.forecastCache: hours -> [data, timestamp]
  reply,                \* the last forecast request and what it returned
  rooms,                \* the connected sockets and the rooms each has joined
  inbox,                \* the events each socket's client has received
  job                   \* the scheduler's callback: where it is, what it has done

notificationVars ==
  <<now, objs, subscribers, notificationHistory, calls, sendLog, response, script>>

serviceVars == <<cache, fetches, fetchLog>>

serverVars == <<models, forecastCache, reply, rooms, inbox, job>>

backendVars == <<serviceVars, serverVars>>

vars == <<notificationVars, serviceVars, serverVars>>

-----------------------------------------------------------------------------
(* Bounds of the model *)

MaxTime == 65
MaxObjs == 2
MaxSends == 2
MaxAppends == 4
MaxLimit == 3

(* Program constants *)

maxHistorySize == 1000
CooldownHours == 1
DefaultRadius == 25
AlertWindowHours == 24
DefaultWarning == 100
DefaultCritical == 150
DefaultEmergency == 200
DefaultLimit == 50
MinutesPerHour == 60

Users == {"u1"}
HistoryUsers == {"u1", "u2"}
Channels == {"websocket", "email", "sms"}
Null == "null"
NoTime == -1
NoRadius == -1
TickSteps == {30}
Slots == {1, 2}

-----------------------------------------------------------------------------
(* JavaScript helpers *)

Min(a, b) == IF a < b THEN a ELSE b
Max(a, b) == IF a > b THEN a ELSE b
Abs(a) == IF a < 0 THEN -a ELSE a

\* Array.prototype.slice(start): a negative start counts from the end, and
\* -0 is 0.
Slice(s, start) ==
  LET len == Len(s)
      k == IF start < 0 THEN Max(len + start, 0) ELSE Min(start, len)
  IN SubSeq(s, k + 1, len)

\* Array.prototype.reverse
Reverse(s) == [i \in 1..Len(s) |-> s[Len(s) + 1 - i]]

\* moment(a).diff(moment(b), 'hours'): the difference truncated towards zero
HoursDiff(a, b) ==
  IF a >= b THEN (a - b) \div MinutesPerHour ELSE -((b - a) \div MinutesPerHour)

\* { ...a, ...b }
Spread(a, b) ==
  [k \in (DOMAIN a) \cup (DOMAIN b) |-> IF k \in DOMAIN b THEN b[k] ELSE a[k]]

\* p[k] || d, for a field whose supplied values are truthy
OrDefault(p, k, d) == IF k \in DOMAIN p THEN p[k] ELSE d

\* a >= t[k], false when t[k] is undefined
AtLeast(a, t, k) == k \in DOMAIN t /\ a >= t[k]

\* a string that is neither null nor empty
Truthy(s) == s # Null /\ s # ""

-----------------------------------------------------------------------------
(* NotificationService: constructor *)

alertThresholds ==
  [aqi |-> [warning |-> DefaultWarning, critical |-> DefaultCritical,
            emergency |-> DefaultEmergency],
   pollutants |-> ("NO2" :> [warning |-> 40, critical |-> 100])
                   @@ ("O3" :> [warning |-> 100, critical |-> 200])
                   @@ ("SO2" :> [warning |-> 60, critical |-> 150])
                   @@ ("HCHO" :> [warning |-> 20, critical |-> 50])
                   @@ ("PM2.5" :> [warning |-> 35, critical |-> 55])
                   @@ ("PM10" :> [warning |-> 154, critical |-> 254])]

NoResponse == [userId |-> "", limit |-> 0, entries |-> <<>>]

IdleCall ==
  [kind |-> "none", pc |-> "done", forecasts |-> <<>>, cursor |-> 0, user |-> "",
   obj |-> 0, rel |-> <<>>, alerts |-> <<>>, inv |-> 0]

NoReply == [op |-> "none"]

IdleJob == [pc |-> "idle", ticks |-> 0, trace |-> <<>>]

\* server.js lines 77-82 and the ForecastService constructor: no model, an
\* empty forecast cache, no socket connected, no scheduled run yet
InitServer ==
  /\ models = {}
  /\ forecastCache = <<>>
  /\ reply = NoReply
  /\ rooms = <<>>
  /\ inbox = <<>>
  /\ job = IdleJob

Init ==
  /\ now = 0
  /\ objs = <<>>
  /\ subscribers = <<>>
  /\ notificationHistory = <<>>
  /\ calls = [c \in Slots |-> IdleCall]
  /\ sendLog = <<>>
  /\ response = NoResponse
  /\ script = "free"
  /\ cache = [k \in {} |-> 0]
  /\ fetches = [c \in Slots |-> [pc |-> "done", inv |-> 0]]
  /\ fetchLog = <<>>
  /\ InitServer

-----------------------------------------------------------------------------
(* NotificationService: the registry *)

Subscribed(u) == u \in DOMAIN subscribers
ObjOf(u) == subscribers[u].obj
SubOf(u) == objs[ObjOf(u)]

\* the subscription object built by subscribeToLocation
NewSubscription(userId, location, preferences) ==
  [userId |-> userId,
   location |-> [pos |-> location.pos,
                 radius |-> IF "radius" \in DOMAIN location /\ location.radius # 0
                            THEN location.radius ELSE DefaultRadius],
   preferences |->
     [aqiThresholds |-> OrDefault(preferences, "aqiThresholds", alertThresholds.aqi),
      pollutantThresholds |->
        OrDefault(preferences, "pollutantThresholds", alertThresholds.pollutants),
      notificationMethods |-> OrDefault(preferences, "methods", {"websocket", "email"}),
      email |-> OrDefault(preferences, "email", Null),
      phone |-> OrDefault(preferences, "phone", Null),
      enabled |-> ~("enabled" \in DOMAIN preferences /\ preferences.enabled = FALSE)],
   lastNotification |-> NoTime,
   askedRadius |-> IF "radius" \in DOMAIN location THEN location.radius ELSE NoRadius]

\* Map.prototype.set: an existing key keeps its place in the iteration order
MapSet(m, u, o) ==
  [k \in (DOMAIN m) \cup {u} |->
     IF k = u
     THEN [obj |-> o, stamp |-> IF u \in DOMAIN m THEN m[u].stamp ELSE o]
     ELSE m[k]]

\* a delete that removes nothing
MapDeleteNothing(m, u) == m

MapDelete(m, u) == [k \in (DOMAIN m) \ {u} |-> m[k]]

\* Model housekeeping: a subscription object that neither the Map nor a
\* suspended call refers to any more is garbage.
Garbage == [garbage |-> TRUE]

Collect(os, subs, cs) ==
  LET live == {subs[u].obj : u \in DOMAIN subs}
                \cup {cs[c].obj : c \in {k \in DOMAIN cs : cs[k].pc # "done"}}
  IN [o \in DOMAIN os |-> IF o \in live THEN os[o] ELSE Garbage]

subscribeToLocation(userId, location, preferences) ==
  /\ Len(objs) < MaxObjs
  /\ subscribers' = MapSet(subscribers, userId, Len(objs) + 1)
  /\ objs' = Collect(Append(objs, NewSubscription(userId, location, preferences)),
                     subscribers', calls)
  /\ UNCHANGED <<now, notificationHistory, calls, sendLog, response>>

unsubscribeFromLocation(userId) ==
  /\ subscribers' = IF Subscribed(userId) THEN MapDelete(subscribers, userId)
                    ELSE subscribers
  /\ objs' = Collect(objs, subscribers', calls)
  /\ UNCHANGED <<now, notificationHistory, calls, sendLog, response>>

MergedPreferences(old, patch) == Spread(old, patch)

updatePreferences(userId, preferences) ==
  /\ objs' = IF Subscribed(userId)
             THEN [objs EXCEPT ![ObjOf(userId)].preferences =
                                 MergedPreferences(@, preferences)]
             ELSE objs
  /\ UNCHANGED <<now, subscribers, notificationHistory, calls, sendLog, response>>

Tick(d) ==
  /\ now + d <= MaxTime
  /\ now' = now + d
  /\ UNCHANGED <<objs, subscribers, notificationHistory, calls, sendLog, response>>

-----------------------------------------------------------------------------
(* NotificationService: forecasts and their analysis *)

\* An AQI or pollutant prediction of a forecast generated at time gen: the
\* generator stamps hour h with gen + h hours.
AqiPrediction(gen, h, a) ==
  [hour |-> h, aqi |-> a, timestamp |-> gen + h * MinutesPerHour]

PollutantPrediction(gen, h, c) ==
  [hour |-> h, concentration |-> c, timestamp |-> gen + h * MinutesPerHour]

\* a forecast object: location, the AQI predictions and the pollutants map
\* (a sequence of [pollutant, predictions] in key order)
Forecast(pos, aqiPredictions, pollutantPredictions) ==
  [location |-> [pos |-> pos], aqi |-> aqiPredictions,
   pollutants |-> pollutantPredictions]

calculateDistance(pos1, pos2) == Abs(pos2 - pos1)

getRelevantForecasts(forecasts, location) ==
  LET near(f) == calculateDistance(location.pos, f.location.pos) <= location.radius
  IN SelectSeq(forecasts, near)

InAlertWindow(hoursUntilAlert) ==
  hoursUntilAlert > 0 /\ hoursUntilAlert <= AlertWindowHours

AqiSeverity(aqi, thresholds) ==
  IF AtLeast(aqi, thresholds, "emergency") THEN "emergency"
  ELSE IF AtLeast(aqi, thresholds, "critical") THEN "critical"
  ELSE IF AtLeast(aqi, thresholds, "warning") THEN "warning"
  ELSE "none"

PollutantSeverity(concentration, thresholds) ==
  IF AtLeast(concentration, thresholds, "critical") THEN "critical"
  ELSE IF AtLeast(concentration, thresholds, "warning") THEN "warning"
  ELSE "none"

AqiAlertType(severity) ==
  CASE severity = "emergency" -> "aqi-emergency"
    [] severity = "critical" -> "aqi-critical"
    [] OTHER -> "aqi-warning"

PollutantAlertType(severity) ==
  IF severity = "critical" THEN "pollutant-critical" ELSE "pollutant-warning"

AqiAlerts(forecast, preferences, t) ==
  LET sev(p) == AqiSeverity(p.aqi, preferences.aqiThresholds)
      hit(p) == InAlertWindow(HoursDiff(p.timestamp, t)) /\ sev(p) # "none"
      sel == SelectSeq(forecast.aqi, hit)
  IN [i \in 1..Len(sel) |->
        [type |-> AqiAlertType(sev(sel[i])), severity |-> sev(sel[i]),
         hoursUntil |-> HoursDiff(sel[i].timestamp, t)]]

PollutantAlertsOf(entry, preferences, t) ==
  IF entry.pollutant \notin DOMAIN preferences.pollutantThresholds THEN <<>>
  ELSE
    LET thr == preferences.pollutantThresholds[entry.pollutant]
        sev(p) == PollutantSeverity(p.concentration, thr)
        hit(p) == InAlertWindow(HoursDiff(p.timestamp, t)) /\ sev(p) # "none"
        sel == SelectSeq(entry.predictions, hit)
    IN [i \in 1..Len(sel) |->
          [type |-> PollutantAlertType(sev(sel[i])), severity |-> sev(sel[i]),
           hoursUntil |-> HoursDiff(sel[i].timestamp, t)]]

RECURSIVE PollutantAlerts(_, _, _)
PollutantAlerts(entries, preferences, t) ==
  IF entries = <<>> THEN <<>>
  ELSE PollutantAlertsOf(Head(entries), preferences, t)
         \o PollutantAlerts(Tail(entries), preferences, t)

analyzeForecastForAlerts(forecast, preferences, t) ==
  AqiAlerts(forecast, preferences, t)
    \o PollutantAlerts(forecast.pollutants, preferences, t)

-----------------------------------------------------------------------------
(* NotificationService: history *)

\* the trim keeping the first maxHistorySize entries instead of the last
addToHistoryKeepsOldest(history, userId, alerts, t) ==
  LET pushed == Append(history, [userId |-> userId, alerts |-> alerts, timestamp |-> t])
  IN IF Len(pushed) > maxHistorySize THEN SubSeq(pushed, 1, maxHistorySize) ELSE pushed

addToHistory(history, userId, alerts, t) ==
  LET pushed == Append(history, [userId |-> userId, alerts |-> alerts, timestamp |-> t])
  IN IF Len(pushed) > maxHistorySize THEN Slice(pushed, -maxHistorySize) ELSE pushed

getNotificationHistory(history, userId, limit) ==
  LET mine(e) == e.userId = userId
  IN Reverse(Slice(SelectSeq(history, mine), -limit))

-----------------------------------------------------------------------------
(* NotificationService: sendAlerts, cut at its awaits.  w is the part of   *)
(* the state sendAlerts works on, i the log record of this invocation, o   *)
(* the subscription object it was handed, t the clock.                     *)

World == [objs |-> objs, hist |-> notificationHistory, log |-> sendLog]

\* The log record of an invocation: by which kind of call and for which
\* subscription object it was made, when it started, how far the forecast
\* lies from the subscriber, the radius the subscriber asked for and
\* whether the subscriber was enabled, and what the invocation has done.
LogEntry(call, subscription, o, t, distance) ==
  [kind |-> call.kind, user |-> subscription.userId, obj |-> o, start |-> t,
   distance |-> distance, askedRadius |-> subscription.askedRadius,
   enabled |-> subscription.preferences.enabled,
   passed |-> FALSE, emitted |-> {}, wroteLast |-> FALSE, appended |-> FALSE]

\* the cooldown measured in minutes instead of hours
CooldownActiveMinutes(subscription, t) ==
  /\ subscription.lastNotification # NoTime
  /\ t - subscription.lastNotification < CooldownHours

\* "Don't send alerts more than once per hour"
CooldownActive(subscription, t) ==
  /\ subscription.lastNotification # NoTime
  /\ HoursDiff(t, subscription.lastNotification) < CooldownHours

Emit(w, i, channel) == [w EXCEPT !.log[i].emitted = @ \cup {channel}]

\* lastNotification = new Date(); addToHistory(userId, alerts)
SendAlertsFinish(w, i, o, userId, alerts, t) ==
  [w |-> [w EXCEPT !.objs[o].lastNotification = t,
                   !.hist = addToHistory(@, userId, alerts, t),
                   !.log[i].wroteLast = TRUE,
                   !.log[i].appended = TRUE],
   pc |-> "done"]

SendAlertsSms(w, i, o, userId, alerts, t) ==
  LET p == w.objs[o].preferences
  IN IF "sms" \in p.notificationMethods /\ Truthy(p.phone)
     THEN [w |-> Emit(w, i, "sms"), pc |-> "afterSms"]
     ELSE SendAlertsFinish(w, i, o, userId, alerts, t)

SendAlertsEmail(w, i, o, userId, alerts, t) ==
  LET p == w.objs[o].preferences
  IN IF "email" \in p.notificationMethods /\ Truthy(p.email)
     THEN [w |-> Emit(w, i, "email"), pc |-> "afterEmail"]
     ELSE SendAlertsSms(w, i, o, userId, alerts, t)

SendAlertsWebsocket(w, i, o) ==
  IF "websocket" \in w.objs[o].preferences.notificationMethods
  THEN Emit(w, i, "websocket") ELSE w

SendAlertsEntry(w, i, o, userId, alerts, t) ==
  IF CooldownActive(w.objs[o], t)
  THEN [w |-> w, pc |-> "done"]
  ELSE SendAlertsEmail(SendAlertsWebsocket([w EXCEPT !.log[i].passed = TRUE], i, o),
                       i, o, userId, alerts, t)

-----------------------------------------------------------------------------
(* The async invocations.  A call record holds the locals of one           *)
(* checkAndSendAlerts pass or one testNotification call: the forecasts it  *)
(* was given, the stamp of the Map entry its iterator stands on (cursor),  *)
(* the subscription object and the rest of the relevant forecasts of the   *)
(* inner loop, the alerts handed to sendAlerts and that invocation's log   *)
(* record, and where it is suspended (pc).                                 *)

NewCall(kind, forecasts) == [IdleCall EXCEPT !.kind = kind, !.forecasts = forecasts]

InFlight(c) == calls[c].pc # "done"

\* the slot a new invocation takes
FreeSlot == CHOOSE c \in Slots : ~InFlight(c) /\ \A d \in Slots : ~InFlight(d) => c <= d

\* the caller's position once the awaited sendAlerts has returned
AfterSend(kind) == IF kind = "check" THEN "loop" ELSE "done"

Settle(call, pc) ==
  IF pc = "done" /\ AfterSend(call.kind) = "done" THEN IdleCall
  ELSE [call EXCEPT !.pc = IF pc = "done" THEN AfterSend(call.kind) ELSE pc]

\* await this.sendAlerts(userId, alerts, subscription), up to its first await
Invoke(w, call, userId, o, alerts, t, distance) ==
  LET i == Len(w.log) + 1
      r == SendAlertsEntry(
             [w EXCEPT !.log = Append(@, LogEntry(call, w.objs[o], o, t, distance))],
             i, o, userId, alerts, t)
  IN [w |-> r.w,
      call |-> Settle([call EXCEPT !.user = userId, !.obj = o, !.alerts = alerts,
                                   !.inv = i], r.pc)]

\* a forecast object without the pollutants map: analyzeForecastForAlerts
\* throws at Object.keys(forecast.pollutants)
Malformed(forecast) == "pollutants" \notin DOMAIN forecast

\* the first forecast of rel where the inner loop leaves its synchronous run:
\* one that yields alerts, or one whose analysis throws (0: none)
FirstAlerting(rel, preferences, t) ==
  LET I == {i \in 1..Len(rel) :
              \/ Malformed(rel[i])
              \/ analyzeForecastForAlerts(rel[i], preferences, t) # <<>>}
  IN IF I = {} THEN 0 ELSE CHOOSE i \in I : \A j \in I : i <= j

\* the Map entry the iterator reaches next with something to send: the
\* entries after the cursor, in insertion order, skipping the disabled
\* subscribers and those without an alerting relevant forecast
NextSubscriber(w, subs, call, t) ==
  LET good(u) ==
        /\ subs[u].stamp > call.cursor
        /\ w.objs[subs[u].obj].preferences.enabled
        /\ FirstAlerting(getRelevantForecasts(call.forecasts, w.objs[subs[u].obj].location),
                         w.objs[subs[u].obj].preferences, t) # 0
      G == {u \in DOMAIN subs : good(u)}
  IN IF G = {} THEN ""
     ELSE CHOOSE u \in G : \A v \in G : subs[u].stamp <= subs[v].stamp

\* checkAndSendAlerts from its loops to the next await (or its end); an
\* exception thrown by the analysis of a forecast is caught outside both
\* loops and ends the pass
CheckLoop(w, subs, call, t) ==
  LET inner == IF call.obj = 0 THEN 0
               ELSE FirstAlerting(call.rel, w.objs[call.obj].preferences, t)
      u == NextSubscriber(w, subs, call, t)
  IN IF inner # 0 /\ Malformed(call.rel[inner])
     THEN [w |-> w, call |-> IdleCall]
     ELSE IF inner # 0
     THEN Invoke(w, [call EXCEPT !.rel = SubSeq(call.rel, inner + 1, Len(call.rel))],
                 call.user, call.obj,
                 analyzeForecastForAlerts(call.rel[inner],
                                          w.objs[call.obj].preferences, t), t,
                 calculateDistance(w.objs[call.obj].location.pos,
                                   call.rel[inner].location.pos))
     ELSE IF u # ""
     THEN LET o == subs[u].obj
              rel == getRelevantForecasts(call.forecasts, w.objs[o].location)
              k == FirstAlerting(rel, w.objs[o].preferences, t)
          IN IF Malformed(rel[k])
             THEN [w |-> w, call |-> IdleCall]
             ELSE Invoke(w, [call EXCEPT !.cursor = subs[u].stamp,
                                         !.rel = SubSeq(rel, k + 1, Len(rel))],
                         u, o,
                         analyzeForecastForAlerts(rel[k], w.objs[o].preferences, t), t,
                         calculateDistance(w.objs[o].location.pos, rel[k].location.pos))
     ELSE [w |-> w, call |-> IdleCall]

Commit(r, c) ==
  /\ calls' = [calls EXCEPT ![c] = r.call]
  /\ objs' = Collect(r.w.objs, subscribers, calls')
  /\ notificationHistory' = r.w.hist
  /\ sendLog' = r.w.log
  /\ UNCHANGED <<now, subscribers, response>>

checkAndSendAlerts(forecasts) ==
  /\ \E c \in Slots : ~InFlight(c)
  /\ Commit(CheckLoop(World, subscribers, NewCall("check", forecasts), now), FreeSlot)

testAlert == <<[type |-> "test", severity |-> "info", hoursUntil |-> 0]>>

testNotification(userId) ==
  /\ \E c \in Slots : ~InFlight(c)
  /\ IF Subscribed(userId)
     THEN Commit(Invoke(World, NewCall("test", <<>>), userId, ObjOf(userId),
                        testAlert, now, 0),
                 FreeSlot)
     ELSE Commit([w |-> World, call |-> IdleCall], FreeSlot)

\* a suspended call resumes after its await
Resume(c) ==
  /\ InFlight(c)
  /\ LET call == calls[c]
     IN Commit(
          CASE call.pc = "loop" -> CheckLoop(World, subscribers, call, now)
            [] call.pc = "afterEmail" ->
                 LET r == SendAlertsSms(World, call.inv, call.obj, call.user,
                                        call.alerts, now)
                 IN [w |-> r.w, call |-> Settle(call, r.pc)]
            [] call.pc = "afterSms" ->
                 LET r == SendAlertsFinish(World, call.inv, call.obj, call.user,
                                           call.alerts, now)
                 IN [w |-> r.w, call |-> Settle(call, r.pc)],
          c)

-----------------------------------------------------------------------------
(* Inputs *)

NoPrefs == [k \in {} |-> 0]

\* request bodies of POST /subscribe: the subscriber stands at position 0
LocationInputs == {[pos |-> 0, radius |-> 0], [pos |-> 0, radius |-> 5]}

PreferenceInputs ==
  {NoPrefs,
   [methods |-> {"websocket", "email", "sms"}, email |-> "a@x", phone |-> "555"]}

\* request bodies of PUT /preferences
PatchInputs ==
  {[enabled |-> FALSE], [aqiThresholds |-> [warning |-> 80], theme |-> "dark"]}

\* Forecasts generated one minute before they are analysed at time t: one
\* with an AQI above the warning threshold three hours ahead, one whose
\* only high AQI is less than a full hour ahead (no alert), one with a
\* pollutant above its warning threshold.
Alerting(t, pos) == Forecast(pos, <<AqiPrediction(t - 1, 3, 130)>>, <<>>)

Calm(t, pos) == Forecast(pos, <<AqiPrediction(t - 1, 1, 105)>>, <<>>)

Smoggy(t, pos) ==
  Forecast(pos, <<AqiPrediction(t - 1, 2, 50)>>,
           <<[pollutant |-> "NO2", predictions |-> <<PollutantPrediction(t - 1, 2, 45)>>]>>)

\* the arrays handed to checkAndSendAlerts at time t
ForecastArrays(t) ==
  {<<Alerting(t, 10)>>, <<Alerting(t, 0), Alerting(t, 10)>>, <<Calm(t, 0)>>}

-----------------------------------------------------------------------------
(* The service under arbitrary requests and scheduler passes, the calls    *)
(* interleaving at their awaits.                                           *)

Free == script = "free" /\ UNCHANGED script /\ UNCHANGED backendVars

Bounded == Len(sendLog') <= MaxSends

Next ==
  \/ \E u \in Users, l \in LocationInputs, p \in PreferenceInputs :
       Free /\ subscribeToLocation(u, l, p)
  \/ \E u \in Users : Free /\ unsubscribeFromLocation(u)
  \/ \E u \in Users, p \in PatchInputs : Free /\ updatePreferences(u, p)
  \/ \E fs \in ForecastArrays(now) : Free /\ checkAndSendAlerts(fs) /\ Bounded
  \/ \E u \in Users : Free /\ testNotification(u) /\ Bounded
  \/ \E c \in Slots : Free /\ Resume(c) /\ Bounded
  \/ \E d \in TickSteps : Free /\ Tick(d)

Spec == Init /\ [][Next]_vars

-----------------------------------------------------------------------------
(* The service when every call is started after the previous one has       *)
(* returned (one request or scheduler pass at a time).                     *)

Quiet == \A c \in Slots : ~InFlight(c)

SeqLocationInputs == {[pos |-> 0]}

SeqPatchInputs == {[enabled |-> FALSE]}

SeqForecastArrays(t) ==
  {<<Alerting(t, 0), Alerting(t, 10)>>, <<Smoggy(t, 0)>>, <<Calm(t, 0)>>}

NextSeq ==
  \/ \E u \in Users, l \in SeqLocationInputs, p \in PreferenceInputs :
       Free /\ subscribeToLocation(u, l, p)
  \/ \E u \in Users : Free /\ unsubscribeFromLocation(u)
  \/ \E u \in Users, p \in SeqPatchInputs : Free /\ updatePreferences(u, p)
  \/ \E fs \in SeqForecastArrays(now) : Free /\ Quiet /\ checkAndSendAlerts(fs) /\ Bounded
  \/ \E u \in Users : Free /\ Quiet /\ testNotification(u) /\ Bounded
  \/ \E c \in Slots : Free /\ Resume(c) /\ Bounded
  \/ \E d \in TickSteps : Free /\ Tick(d)

SpecSeq == Init /\ [][NextSeq]_vars

-----------------------------------------------------------------------------
(* Scenario S5: one subscriber with the default warning threshold of 100,  *)
(* forecast A at t = 0 (AQI 130 at hour 3), forecast B at t = 20 min (AQI  *)
(* 140 at hour 2), forecast C at t = 65 min (AQI 105 at hour 1).  Each     *)
(* forecast is analysed at the instant it was generated or later.          *)

Lags == {0, 1}

S5PreferenceInputs ==
  {[aqiThresholds |-> alertThresholds.aqi, methods |-> m, email |-> "a@x", phone |-> "555"] :
     m \in (SUBSET Channels) \ {{}}}

S5Forecast(t, lag, h, a) == <<Forecast(0, <<AqiPrediction(t - lag, h, a)>>, <<>>)>>

InitS5 ==
  /\ Init!1 /\ Init!2 /\ Init!3 /\ Init!4 /\ Init!5 /\ Init!6 /\ Init!7
  /\ Init!9 /\ Init!10 /\ Init!11 /\ Init!12
  /\ script = "S5 subscribe"

S5Step(from, to) == script = from /\ script' = to /\ UNCHANGED backendVars

NextS5 ==
  \/ \E l \in LocationInputs, p \in S5PreferenceInputs :
       S5Step("S5 subscribe", "S5 forecast A") /\ subscribeToLocation("u1", l, p)
  \/ \E lag \in Lags :
       /\ S5Step("S5 forecast A", "S5 wait 20")
       /\ checkAndSendAlerts(S5Forecast(now, lag, 3, 130))
  \/ S5Step("S5 wait 20", "S5 forecast B") /\ Quiet /\ Tick(20)
  \/ \E lag \in Lags :
       /\ S5Step("S5 forecast B", "S5 wait 45")
       /\ checkAndSendAlerts(S5Forecast(now, lag, 2, 140))
  \/ S5Step("S5 wait 45", "S5 forecast C") /\ Quiet /\ Tick(45)
  \/ \E lag \in Lags :
       /\ S5Step("S5 forecast C", "S5 end")
       /\ checkAndSendAlerts(S5Forecast(now, lag, 1, 105))
  \/ \E c \in Slots : UNCHANGED <<script, backendVars>> /\ Resume(c)

SpecS5 == InitS5 /\ [][NextS5]_vars

-----------------------------------------------------------------------------
(* The notification history on its own: a history that earlier dispatches  *)
(* have filled (one per minute, the last one a minute before time 0), to   *)
(* which addToHistory appends and which GET /history queries.              *)

PrefillLengths == {0, maxHistorySize - 1}

HistoryUser(i) == IF i % 2 = 0 THEN "u1" ELSE "u2"

Prefill(n) ==
  [i \in 1..n |-> [userId |-> HistoryUser(i), alerts |-> testAlert, timestamp |-> i - n - 1]]

\* the limit query parameter after parseInt, or the default
LimitInputs == (0..MaxLimit) \cup {DefaultLimit}

InitHistory ==
  /\ Init!1 /\ Init!2 /\ Init!3 /\ Init!5 /\ Init!6 /\ Init!7
  /\ Init!9 /\ Init!10 /\ Init!11 /\ Init!12
  /\ script = "history"
  /\ \E n \in PrefillLengths : notificationHistory = Prefill(n)

AppendToHistory(userId) ==
  /\ now < MaxAppends
  /\ notificationHistory' = addToHistory(notificationHistory, userId, testAlert, now)
  /\ now' = now + 1
  /\ UNCHANGED <<objs, subscribers, calls, sendLog, response, script, backendVars>>

GetHistory(userId, limit) ==
  /\ response' = [userId |-> userId, limit |-> limit,
                  entries |-> getNotificationHistory(notificationHistory, userId, limit)]
  /\ UNCHANGED <<now, objs, subscribers, notificationHistory, calls, sendLog, script,
                 backendVars>>

NextHistory ==
  \/ \E u \in HistoryUsers : AppendToHistory(u)
  \/ \E u \in HistoryUsers, l \in LimitInputs : GetHistory(u, l)

SpecHistory == InitHistory /\ [][NextHistory]_vars

-----------------------------------------------------------------------------
(* Properties *)

CooldownMinutes == CooldownHours * MinutesPerHour

Idle(entry) ==
  ~entry.passed /\ entry.emitted = {} /\ ~entry.wroteLast /\ ~entry.appended

\* C1: of two sendAlerts calls for one subscription made one after the other
\* less than the one-hour cooldown apart, the first of which sent, the second
\* emits on no channel, leaves lastNotification alone and appends nothing to
\* the history: the two calls cause one send.
CooldownOneSend ==
  \A i, j \in DOMAIN sendLog :
    (/\ i < j
     /\ sendLog[i].obj = sendLog[j].obj
     /\ sendLog[i].passed
     /\ sendLog[j].start - sendLog[i].start < CooldownMinutes)
      => Idle(sendLog[j])

CooldownSecondCallSkipped ==
  \E i, j \in DOMAIN sendLog :
    /\ i < j
    /\ sendLog[i].obj = sendLog[j].obj
    /\ sendLog[i].passed /\ sendLog[i].appended /\ sendLog[i].emitted # {}
    /\ sendLog[j].start - sendLog[i].start < CooldownMinutes
    /\ sendLog[j].start > sendLog[i].start
    /\ Idle(sendLog[j])

PastCooldownCheck(c) == calls[c].pc \in {"afterEmail", "afterSms"}

\* C2: dispatches for one subscriber are serialized: of the calls in flight
\* for one subscription, at most one has passed the cooldown check.
DispatchSerialized ==
  \A c, d \in Slots :
    (c # d /\ PastCooldownCheck(c) /\ PastCooldownCheck(d))
      => calls[c].obj # calls[d].obj

EntriesOf(userId) ==
  LET mine(e) == e.userId = userId IN SelectSeq(notificationHistory, mine)

\* C3: at the end of scenario S5 the history holds exactly two entries for
\* the subscriber (forecasts A and C dispatched, B not).
S5TwoDispatches ==
  (script = "S5 end" /\ Quiet) => Len(EntriesOf("u1")) = 2

\* C4: subscribing an id that is already subscribed leaves its
\* lastNotification unchanged.
ResubscribeKeepsLastNotification ==
  [][\A u \in Users :
       (/\ u \in DOMAIN subscribers
        /\ u \in DOMAIN subscribers'
        /\ subscribers'[u].obj # subscribers[u].obj)
         => objs'[subscribers'[u].obj].lastNotification
              = objs[subscribers[u].obj].lastNotification]_vars

\* C5: a test notification bypasses the cooldown: every sendAlerts call made
\* by testNotification sends.
TestBypassesCooldown ==
  \A i \in DOMAIN sendLog : sendLog[i].kind = "test" => sendLog[i].passed

\* C6: no dispatch path sends, starts the cooldown or appends history for a
\* subscriber that is disabled at the time of the call.
NoSendToDisabled ==
  \A i \in DOMAIN sendLog : ~sendLog[i].enabled => Idle(sendLog[i])

\* C7: a subscriber who subscribed with radius 0 is not dispatched to for a
\* forecast at a non-zero distance.
RadiusZeroNeverAlerted ==
  \A i \in DOMAIN sendLog :
    (sendLog[i].kind = "check" /\ sendLog[i].askedRadius = 0 /\ sendLog[i].distance > 0)
      => ~sendLog[i].passed

\* C8: the history never holds more than maxHistorySize entries, and an
\* append at capacity evicts exactly the oldest entry, the others keeping
\* their order.
HistoryBoundedRing ==
  [][/\ Len(notificationHistory') <= maxHistorySize
     /\ \A u \in HistoryUsers :
          AppendToHistory(u) =>
            LET e == [userId |-> u, alerts |-> testAlert, timestamp |-> now]
            IN notificationHistory' =
                 IF Len(notificationHistory) = maxHistorySize
                 THEN Append(Tail(notificationHistory), e)
                 ELSE Append(notificationHistory, e)]_vars

HistoryEvictedOldest ==
  /\ script = "history"
  /\ Len(notificationHistory) = maxHistorySize
  /\ notificationHistory[1].timestamp > 1 - maxHistorySize
  /\ notificationHistory[maxHistorySize].timestamp = now - 1

\* C9: getNotificationHistory(userId, limit) returns the min(limit, n) most
\* recent of the user's n entries, newest first.
HistoryQueryNewestFirst ==
  [][\A u \in HistoryUsers, l \in LimitInputs :
       GetHistory(u, l) =>
         LET mine == EntriesOf(u)
             n == Min(l, Len(mine))
         IN response'.entries = [i \in 1..n |-> mine[Len(mine) + 1 - i]]]_vars

PreferenceFields ==
  {"aqiThresholds", "pollutantThresholds", "notificationMethods", "email", "phone",
   "enabled"}

\* C10: updatePreferences keeps every preference field the patch does not
\* name (the threshold members a partial aqiThresholds patch does not name
\* included), and a patch with a field that is no preference field leaves
\* the subscriber unchanged.
UpdatePreferencesMerges ==
  [][\A u \in Users, p \in PatchInputs :
       (u \in DOMAIN subscribers /\ updatePreferences(u, p)) =>
         LET old == objs[subscribers[u].obj].preferences
             new == objs'[subscribers[u].obj].preferences
         IN IF DOMAIN p \subseteq PreferenceFields
            THEN /\ \A k \in PreferenceFields \ DOMAIN p : new[k] = old[k]
                 /\ "aqiThresholds" \in DOMAIN p =>
                      \A m \in (DOMAIN old.aqiThresholds) \ (DOMAIN p.aqiThresholds) :
                        /\ m \in DOMAIN new.aqiThresholds
                        /\ new.aqiThresholds[m] = old.aqiThresholds[m]
            ELSE objs' = objs]_vars

-----------------------------------------------------------------------------
(* The registry with two subscribers, under subscribe, unsubscribe,        *)
(* preference updates with caller-supplied thresholds, and alert passes    *)
(* interleaving with them at their awaits.  Here script records, for each  *)
(* user, the passes that were already in flight when the user was last     *)
(* unsubscribed.                                                           *)

RegistryUsers == {"u1", "u2"}

InvertedThresholds == [warning |-> 200, critical |-> 150, emergency |-> 100]

RegistryPreferenceInputs ==
  {[methods |-> {"email"}, email |-> "a@x"], [aqiThresholds |-> InvertedThresholds]}

RegistryPatchInputs == {[aqiThresholds |-> [warning |-> 150, critical |-> 150, emergency |-> 200]]}

NoPasses == [u \in RegistryUsers |-> {}]

InitRegistry ==
  /\ Init!1 /\ Init!2 /\ Init!3 /\ Init!4 /\ Init!5 /\ Init!6 /\ Init!7
  /\ Init!9 /\ Init!10 /\ Init!11 /\ Init!12
  /\ script = NoPasses

\* the passes in flight when userId is unsubscribed
PassesAtUnsubscribe(userId) ==
  [script EXCEPT ![userId] = {c \in Slots : InFlight(c)}]

\* a pass that ends, or a slot taken by a new pass, is no earlier pass
PassesAfter(cs) ==
  [u \in RegistryUsers |-> {c \in script[u] : cs[c].pc # "done"}]

NextRegistry ==
  \/ \E u \in RegistryUsers, p \in RegistryPreferenceInputs :
       subscribeToLocation(u, [pos |-> 0], p) /\ UNCHANGED <<script, backendVars>>
  \/ \E u \in RegistryUsers :
       /\ unsubscribeFromLocation(u) /\ script' = PassesAtUnsubscribe(u)
       /\ UNCHANGED backendVars
  \/ \E u \in RegistryUsers, p \in RegistryPatchInputs :
       updatePreferences(u, p) /\ UNCHANGED <<script, backendVars>>
  \/ /\ checkAndSendAlerts(<<Alerting(now, 0), Alerting(now, 10)>>) /\ Bounded
     /\ script' = [u \in RegistryUsers |-> PassesAfter(calls')[u] \ {FreeSlot}]
     /\ UNCHANGED backendVars
  \/ \E c \in Slots :
       /\ Resume(c) /\ Bounded /\ script' = PassesAfter(calls')
       /\ UNCHANGED backendVars

SpecRegistry == InitRegistry /\ [][NextRegistry]_vars

ThresholdsOrdered(t) ==
  /\ {"warning", "critical", "emergency"} \subseteq DOMAIN t
  /\ t.warning < t.critical
  /\ t.critical < t.emergency

\* C11: every subscriber in the registry has AQI thresholds with
\* warning < critical < emergency.
RegistryThresholdsOrdered ==
  \A u \in DOMAIN subscribers : ThresholdsOrdered(SubOf(u).preferences.aqiThresholds)

\* C12: unsubscribeFromLocation(id) leaves id absent from the map and every
\* other subscriber as it was (nothing changes when id was not subscribed),
\* and a pass started after the unsubscribe dispatches only to subscribers
\* that are in the map, so not to id until it subscribes again.
UnsubscribeRemoves ==
  [][/\ \A u \in RegistryUsers :
          unsubscribeFromLocation(u) =>
            /\ u \notin DOMAIN subscribers'
            /\ DOMAIN subscribers' = (DOMAIN subscribers) \ {u}
            /\ \A v \in DOMAIN subscribers' :
                 /\ subscribers'[v] = subscribers[v]
                 /\ objs'[subscribers'[v].obj] = objs[subscribers[v].obj]
            /\ u \notin DOMAIN subscribers => (subscribers' = subscribers /\ objs' = objs)
     /\ Len(sendLog') > Len(sendLog) =>
          LET e == sendLog'[Len(sendLog')]
          IN \A c \in Slots :
               (calls'[c].inv = Len(sendLog') /\ c \notin script[e.user])
                 => e.user \in DOMAIN subscribers]_vars

UnsubscribedThenLaterPass ==
  \E c \in Slots, i \in DOMAIN sendLog :
    /\ "u1" \notin DOMAIN subscribers
    /\ sendLog[i].user = "u1" /\ sendLog[i].passed
    /\ InFlight(c) /\ c \notin script["u1"]
    /\ calls[c].inv > i
    /\ sendLog[calls[c].inv].user = "u2" /\ sendLog[calls[c].inv].passed

-----------------------------------------------------------------------------
(* The data services' caches.  Every fetch method has the same shape: look *)
(* the key up, return the entry if it is younger than cacheTimeout, else   *)
(* await the upstream computation, store its result with the current time  *)
(* and return it; the services differ in what they do when the computation *)
(* throws.  One key of one service is followed; script names the service.  *)
(* Times are in minutes.                                                   *)

MaxFetches == 2
MaxCacheTime == 35

CacheTick == 5

TempoCacheMinutes == 15
GroundCacheMinutes == 10
WeatherCacheMinutes == 30
OpenAQCacheMinutes == 5
ForecastCacheMinutes == 30

Services == {"tempo", "ground", "weather", "openaq", "forecast"}

cacheTimeout(service) ==
  CASE service = "tempo" -> TempoCacheMinutes
    [] service = "ground" -> GroundCacheMinutes
    [] service = "weather" -> WeatherCacheMinutes
    [] service = "openaq" -> OpenAQCacheMinutes
    [] service = "forecast" -> ForecastCacheMinutes

\* what the catch block of the fetch method does: return mock data, return
\* mock data after caching it, or throw
OnFailure(service) ==
  CASE service = "openaq" -> "cached mock"
    [] service = "weather" -> "throw"
    [] OTHER -> "mock"

NoEntry == [k \in {} |-> 0]

NoFetch == [pc |-> "done", inv |-> 0]

\* a computed payload: live or mock, stamped with the time of its computation
Payload(kind, t) == [kind |-> kind, timestamp |-> t]

\* the expiry test that counts an entry of age cacheTimeout as fresh
FreshInclusive(entry, service, t) ==
  entry # NoEntry /\ t - entry.timestamp <= cacheTimeout(service)

\* Date.now() - cached.timestamp < this.cacheTimeout
Fresh(entry, service, t) ==
  entry # NoEntry /\ t - entry.timestamp < cacheTimeout(service)

InitCache ==
  /\ Init!1 /\ Init!2 /\ Init!3 /\ Init!4 /\ Init!5 /\ Init!6 /\ Init!7
  /\ Init!9 /\ Init!10 /\ Init!11 /\ Init!12
  /\ script \in Services

FreeFetchSlot == CHOOSE c \in Slots : fetches[c].pc = "done"

\* a fetch method from its entry to the cached return or to the upstream await
Fetch ==
  /\ Len(fetchLog) < MaxFetches
  /\ \E c \in Slots : fetches[c].pc = "done"
  /\ LET i == Len(fetchLog) + 1
         entry == [start |-> now, found |-> cache, hit |-> Fresh(cache, script, now),
                   returned |-> FALSE, threw |-> FALSE, data |-> NoEntry, end |-> now]
     IN IF Fresh(cache, script, now)
        THEN /\ fetchLog' = Append(fetchLog, [entry EXCEPT !.returned = TRUE,
                                                           !.data = cache.data])
             /\ UNCHANGED <<cache, fetches>>
        ELSE /\ fetchLog' = Append(fetchLog, entry)
             /\ fetches' = [fetches EXCEPT ![FreeFetchSlot] = [pc |-> "upstream", inv |-> i]]
             /\ cache' = IF script = "openaq" THEN NoEntry ELSE cache
  /\ UNCHANGED <<notificationVars, serverVars>>

\* the upstream computation of a suspended fetch succeeds: the result is
\* cached and returned
UpstreamSucceeds(c) ==
  /\ fetches[c].pc = "upstream"
  /\ cache' = [data |-> Payload("live", now), timestamp |-> now]
  /\ fetchLog' = [fetchLog EXCEPT ![fetches[c].inv].returned = TRUE,
                                  ![fetches[c].inv].data = Payload("live", now),
                                  ![fetches[c].inv].end = now]
  /\ fetches' = [fetches EXCEPT ![c] = NoFetch]
  /\ UNCHANGED <<notificationVars, serverVars>>

\* the try block of a suspended fetch throws
UpstreamFails(c) ==
  /\ fetches[c].pc = "upstream"
  /\ cache' = IF OnFailure(script) = "cached mock"
              THEN [data |-> Payload("mock", now), timestamp |-> now]
              ELSE cache
  /\ fetchLog' =
       IF OnFailure(script) = "throw"
       THEN [fetchLog EXCEPT ![fetches[c].inv].threw = TRUE, ![fetches[c].inv].end = now]
       ELSE [fetchLog EXCEPT ![fetches[c].inv].returned = TRUE,
                             ![fetches[c].inv].data = Payload("mock", now),
                             ![fetches[c].inv].end = now]
  /\ fetches' = [fetches EXCEPT ![c] = NoFetch]
  /\ UNCHANGED <<notificationVars, serverVars>>

\* updateTempoData, updateAirQualityData, updateWeatherData: the scheduler's
\* sweep deletes the entries older than cacheTimeout
Sweep ==
  /\ script \in {"tempo", "ground", "weather"}
  /\ cache' = IF cache # NoEntry /\ now - cache.timestamp > cacheTimeout(script)
              THEN NoEntry ELSE cache
  /\ UNCHANGED <<fetches, fetchLog>>
  /\ UNCHANGED <<notificationVars, serverVars>>

\* Date.now() moves on
CacheClock ==
  /\ now + CacheTick <= MaxCacheTime
  /\ now' = now + CacheTick
  /\ UNCHANGED <<objs, subscribers, notificationHistory, calls, sendLog, response, script>>
  /\ UNCHANGED backendVars

NextCache ==
  \/ Fetch
  \/ \E c \in Slots : UpstreamSucceeds(c)
  \/ \E c \in Slots : UpstreamFails(c)
  \/ Sweep
  \/ CacheClock

SpecCache == InitCache /\ [][NextCache]_vars

\* C13: at most one upstream computation is in flight for a key.
SingleFlight ==
  \A c, d \in Slots :
    (fetches[c].pc = "upstream" /\ fetches[d].pc = "upstream") => c = d

IdempotentWithinTTL ==
  \A i, j \in DOMAIN fetchLog :
    (/\ ~fetchLog[i].hit /\ fetchLog[i].returned
     /\ i < j /\ fetchLog[j].start > fetchLog[i].end
     /\ fetchLog[j].start - fetchLog[i].start < cacheTimeout(script)
     /\ fetchLog[j].returned)
      => fetchLog[j].data = fetchLog[i].data


-----------------------------------------------------------------------------
(* ForecastService.generateForecasts and the route GET /comprehensive.     *)
(* The repository holds two copies of ForecastService: the one the route   *)
(* and server.js require (services/ForecastService.js) and unnamed/part_000;*)
(* script names the copy that is loaded.  A prediction is followed by its  *)
(* hour and timestamp; its concentration and AQI value come from           *)
(* Math.random and are left out.  Times are in minutes.                    *)

MaxHours == 25
MaxForecastTime == 30

ForecastTick == 30

DefaultHours == 24

Pollutants == {"NO2", "O3", "SO2", "HCHO", "PM2.5", "PM10"}

Horizons == {1, DefaultHours, MaxHours}

ForecastBuilds == {"services/ForecastService.js", "unnamed/part_000"}

\* generateForecasts() called without an argument
NoParams == [k \in {} |-> 0]

NoData == [k \in {} |-> 0]

\* moment().add(h, 'hours')
HoursFrom(t, h) == t + h * MinutesPerHour

\* statisticalForecast(params, pollutant, hours = 24)
statisticalForecast(params, pollutant, hours, t) ==
  [h \in 1..hours |->
     [hour |-> h, timestamp |-> HoursFrom(t, h), method |-> "statistical"]]

predictPollutant(model, features, hours, t) ==
  statisticalForecast(NoParams, "pollutant", hours, t)

\* the loop over the pollutants: the call of statisticalForecast for a
\* pollutant without a model passes no hours, so the default applies
PollutantForecasts(ms, params, t) ==
  [p \in Pollutants |->
     IF p \in ms THEN predictPollutant(p, <<>>, params.hours, t)
     ELSE statisticalForecast(params, p, DefaultHours, t)]

calculateAQIForecast(forecasts, t) ==
  LET lengths == {Len(forecasts[p]) : p \in DOMAIN forecasts}
      maxHours == CHOOSE n \in lengths : \A m \in lengths : m <= n
  IN [i \in 1..maxHours |->
        [hour |-> (i - 1) + 1, timestamp |-> HoursFrom(t, (i - 1) + 1)]]

\* params.tempoData ? 'available' : 'unavailable'
Availability(data) == IF data # Null THEN "available" ELSE "unavailable"

ForecastResult(ms, params, t) ==
  [timestamp |-> t,
   forecastHours |-> params.hours,
   aqi |-> calculateAQIForecast(PollutantForecasts(ms, params, t), t),
   dataSources |-> [tempo |-> Availability(params.tempoData),
                    ground |-> Availability(params.groundData),
                    weather |-> Availability(params.weatherData)]]

getMockForecastData(params, t) ==
  [generatedAt |-> t,
   forecastPeriod |-> params.hours,
   aqi |-> [i \in 1..params.hours |-> [hour |-> i, timestamp |-> HoursFrom(t, i)]]]

\* prepareFeatures: services/ForecastService.js pushes Object.values of the
\* undeclared featureData, a ReferenceError; part_000 pushes hourData
prepareFeaturesThrows(build) == build = "services/ForecastService.js"

CacheSet(fc, key, data, t) ==
  [k \in DOMAIN fc \cup {key} |->
     IF k = key THEN [data |-> data, timestamp |-> t] ELSE fc[k]]

\* generateForecasts: what it throws or returns, and the forecast cache after
generateForecasts(build, ms, fc, params, t) ==
  IF params = NoParams
  THEN [threw |-> TRUE, error |-> "TypeError", data |-> NoData, cache |-> fc]
  ELSE IF params.hours \in DOMAIN fc /\ Fresh(fc[params.hours], "forecast", t)
  THEN [threw |-> FALSE, error |-> "", data |-> fc[params.hours].data, cache |-> fc]
  ELSE IF prepareFeaturesThrows(build)
  THEN IF build = "services/ForecastService.js"
       THEN [threw |-> TRUE, error |-> "Failed to generate air quality forecast",
             data |-> NoData, cache |-> fc]
       ELSE [threw |-> FALSE, error |-> "", data |-> getMockForecastData(params, t),
             cache |-> fc]
  ELSE [threw |-> FALSE, error |-> "", data |-> ForecastResult(ms, params, t),
        cache |-> CacheSet(fc, params.hours, ForecastResult(ms, params, t), t)]

\* the outcome of each upstream request of one /comprehensive request
ProviderOutcomes ==
  [tempo : {"ok", "fail"}, ground : {"ok", "fail"},
   current : {"ok", "fail"}, forecast : {"ok", "fail"}]

\* tempoService.getRealTimeData: fetchTempoData returns the live data or,
\* from its catch block, mock data
TempoData(outcomes) == IF outcomes.tempo = "ok" THEN "live" ELSE "mock"

\* airQualityService.getRealTimeAirQuality: fetchEPAData and fetchOpenAQData
\* return null on an error and processGroundBasedData returns an object
\* without stations
GroundData(outcomes) == IF outcomes.ground = "ok" THEN "live" ELSE "empty"

\* weatherService.fetchWeatherData: fetchCurrentWeather and
\* fetchWeatherForecast return null on an error and processWeatherData
\* returns an object with current: null, forecast: []
WeatherData(outcomes) ==
  IF outcomes.current = "ok" \/ outcomes.forecast = "ok" THEN "live" ELSE "empty"

InitForecast ==
  /\ Init!1 /\ Init!2 /\ Init!3 /\ Init!4 /\ Init!5 /\ Init!6 /\ Init!7
  /\ Init!9 /\ Init!10 /\ Init!11 /\ Init!12
  /\ script \in ForecastBuilds

ForecastFrame ==
  UNCHANGED <<notificationVars, serviceVars, rooms, inbox, job>>

initializeModels ==
  /\ models # Pollutants
  /\ models' = Pollutants
  /\ UNCHANGED <<forecastCache, reply>>
  /\ ForecastFrame

\* a direct call of generateForecasts(params)
GenerateForecasts(params) ==
  LET r == generateForecasts(script, models, forecastCache, params, now)
  IN /\ reply' = [op |-> "call", hours |-> params.hours, models |-> models,
                  status |-> IF r.threw THEN "threw" ELSE "ok", data |-> r.data]
     /\ forecastCache' = r.cache
     /\ UNCHANGED models
     /\ ForecastFrame

\* router.get('/comprehensive'); the route's module calls initializeModels
\* when it is loaded, before any request is served
Comprehensive(located, hours, outcomes) ==
  /\ models = Pollutants
  /\ IF ~located
     THEN /\ reply' = [op |-> "route", status |-> 400]
          /\ UNCHANGED forecastCache
     ELSE LET r == generateForecasts(script, models, forecastCache,
                     [hours |-> hours, tempoData |-> TempoData(outcomes),
                      groundData |-> GroundData(outcomes),
                      weatherData |-> WeatherData(outcomes)], now)
          IN /\ reply' = [op |-> "route", hours |-> hours, outcomes |-> outcomes,
                          status |-> IF r.threw THEN 500 ELSE 200, data |-> r.data]
             /\ forecastCache' = r.cache
  /\ UNCHANGED models
  /\ ForecastFrame

ForecastClock ==
  /\ now + ForecastTick <= MaxForecastTime
  /\ now' = now + ForecastTick
  /\ UNCHANGED <<objs, subscribers, notificationHistory, calls, sendLog, response, script>>
  /\ UNCHANGED backendVars

ParamsInputs ==
  {[hours |-> h, tempoData |-> d, groundData |-> d, weatherData |-> d] :
     h \in Horizons, d \in {Null, "live"}}

NextForecast ==
  \/ initializeModels
  \/ \E params \in ParamsInputs : GenerateForecasts(params)
  \/ ForecastClock

SpecForecast == InitForecast /\ [][NextForecast]_vars

\* the route's own ForecastService, after routes/forecast.js was loaded
InitRoute ==
  /\ Init!1 /\ Init!2 /\ Init!3 /\ Init!4 /\ Init!5 /\ Init!6 /\ Init!7
  /\ Init!9 /\ Init!10 /\ Init!11
  /\ models = Pollutants
  /\ InitServer!2 /\ InitServer!3 /\ InitServer!4 /\ InitServer!5 /\ InitServer!6
  /\ script \in ForecastBuilds

NextRoute ==
  \/ \E hours \in Horizons, outcomes \in ProviderOutcomes :
       Comprehensive(TRUE, hours, outcomes)
  \/ Comprehensive(FALSE, DefaultHours, [p \in {} |-> "ok"])
  \/ ForecastClock

SpecRoute == InitRoute /\ [][NextRoute]_vars

\* C16: a located /comprehensive request answers 200 whatever the upstream
\* outcomes were, reports every failed provider as unavailable in
\* dataSources, and its aqi sequence has the requested number of hours.
DegradedForecastSucceeds ==
  (reply.op = "route" /\ reply.status # 400) =>
    /\ reply.status = 200
    /\ reply.outcomes.tempo = "fail" => reply.data.dataSources.tempo = "unavailable"
    /\ reply.outcomes.ground = "fail" => reply.data.dataSources.ground = "unavailable"
    /\ (reply.outcomes.current = "fail" /\ reply.outcomes.forecast = "fail") =>
         reply.data.dataSources.weather = "unavailable"
    /\ Len(reply.data.aqi) = reply.hours

\* C20: every forecast generateForecasts returns for a horizon of H hours
\* has H aqi entries, entry i (from 0) is for hour i + 1, and the
\* timestamps strictly increase.
ForecastHorizonShape ==
  (reply.op = "call" /\ reply.status = "ok") =>
    /\ Len(reply.data.aqi) = reply.hours
    /\ \A i \in 1..Len(reply.data.aqi) : reply.data.aqi[i].hour = (i - 1) + 1
    /\ \A i \in 1..(Len(reply.data.aqi) - 1) :
         reply.data.aqi[i].timestamp < reply.data.aqi[i + 1].timestamp


-----------------------------------------------------------------------------
(* Alert passes over forecasts of which one lacks the pollutants map, for  *)
(* two subscribers at two places.  script holds the subscribers that a     *)
(* pass ended by an exception had not processed yet although a well-formed *)
(* forecast relevant to them yields alerts.                                *)

IsolationLocations == {[pos |-> 0], [pos |-> 100]}

\* a forecast object without the pollutants map
Broken(t, pos) == [location |-> [pos |-> pos], aqi |-> <<AqiPrediction(t - 1, 3, 130)>>]

IsolationForecasts(t) ==
  {<<Broken(t, 0), Alerting(t, 100)>>, <<Alerting(t, 0), Alerting(t, 100)>>}

\* where checkAndSendAlerts leaves its synchronous run: the subscriber, its
\* Map stamp and subscription object, the forecast reached and the relevant
\* forecasts after it (user "": the loops run to their end)
PassStop(w, subs, call, t) ==
  LET inner == IF call.obj = 0 THEN 0
               ELSE FirstAlerting(call.rel, w.objs[call.obj].preferences, t)
      u == NextSubscriber(w, subs, call, t)
  IN IF inner # 0
     THEN [user |-> call.user, stamp |-> call.cursor, obj |-> call.obj,
           forecast |-> call.rel[inner],
           rest |-> SubSeq(call.rel, inner + 1, Len(call.rel))]
     ELSE IF u # ""
     THEN LET rel == getRelevantForecasts(call.forecasts, w.objs[subs[u].obj].location)
              k == FirstAlerting(rel, w.objs[subs[u].obj].preferences, t)
          IN [user |-> u, stamp |-> subs[u].stamp, obj |-> subs[u].obj,
              forecast |-> rel[k], rest |-> SubSeq(rel, k + 1, Len(rel))]
     ELSE [user |-> ""]

WellFormedAlerts(rel, preferences, t) ==
  \E i \in 1..Len(rel) :
    ~Malformed(rel[i]) /\ analyzeForecastForAlerts(rel[i], preferences, t) # <<>>

\* the subscribers an exception thrown at stop keeps from being alerted: the
\* one being processed if a later forecast of its list yields alerts, and
\* the enabled ones after it in the Map with a forecast that yields alerts
LeftOutAt(w, subs, call, t, stop) ==
  IF stop.user = "" THEN {}
  ELSE IF ~Malformed(stop.forecast) THEN {}
  ELSE {v \in DOMAIN subs :
          /\ w.objs[subs[v].obj].preferences.enabled
          /\ \/ /\ v = stop.user /\ subs[v].obj = stop.obj
                /\ WellFormedAlerts(stop.rest, w.objs[stop.obj].preferences, t)
             \/ /\ subs[v].stamp > stop.stamp
                /\ WellFormedAlerts(
                     getRelevantForecasts(call.forecasts, w.objs[subs[v].obj].location),
                     w.objs[subs[v].obj].preferences, t)}

\* those left out when the catch block of checkAndSendAlerts is entered at
\* this run of the pass (none when it is not)
LeftOut(w, subs, call, t) ==
  UNION {LeftOutAt(w, subs, call, t, stop) : stop \in {PassStop(w, subs, call, t)}}

InitIsolation ==
  /\ Init!1 /\ Init!2 /\ Init!3 /\ Init!4 /\ Init!5 /\ Init!6 /\ Init!7
  /\ Init!9 /\ Init!10 /\ Init!11 /\ Init!12
  /\ script = {}

NextIsolation ==
  \/ \E u \in RegistryUsers, l \in IsolationLocations :
       subscribeToLocation(u, l, NoPrefs) /\ UNCHANGED <<script, backendVars>>
  \/ \E fs \in IsolationForecasts(now) :
       /\ checkAndSendAlerts(fs) /\ Bounded
       /\ script' = script \cup LeftOut(World, subscribers, NewCall("check", fs), now)
       /\ UNCHANGED backendVars
  \/ \E c \in Slots :
       /\ Resume(c) /\ Bounded
       /\ script' = script \cup (IF calls[c].pc = "loop"
                                 THEN LeftOut(World, subscribers, calls[c], now)
                                 ELSE {})
       /\ UNCHANGED backendVars

SpecIsolation == InitIsolation /\ [][NextIsolation]_vars

\* C18: an exception raised while one forecast is analysed for one
\* subscriber keeps no other subscriber or forecast of that pass from being
\* processed: no pass ends by an exception while a subscriber it has not
\* reached has a well-formed forecast that yields alerts.
ErrorsIsolated == script = {}


-----------------------------------------------------------------------------
(* server.js: the socket server and the scheduled update.  The callback of *)
(* cron.schedule is an async function; job follows it from await to await. *)
(* No request has been served and nobody has subscribed to alerts: the     *)
(* data services' caches are empty, so the three sweeps delete nothing,    *)
(* and checkAndSendAlerts finds no subscriber.                             *)

MaxTicks == 2

CronMinutes == 15

Sockets == {"s1", "s2"}

RoomLocations == {[lat |-> 40, lng |-> -74], [lat |-> 34, lng |-> -118]}

\* `location-${location.lat}-${location.lng}`
Room(location) == <<"location", location.lat, location.lng>>

PipelineSteps ==
  <<"updateAirQualityData", "updateTempoData", "updateWeatherData",
    "generateForecasts", "emit", "checkAndSendAlerts">>

InitScheduler ==
  /\ Init!1 /\ Init!2 /\ Init!3 /\ Init!4 /\ Init!5 /\ Init!6 /\ Init!7
  /\ Init!9 /\ Init!10 /\ Init!11 /\ Init!12
  /\ script \in ForecastBuilds

SocketFrame ==
  UNCHANGED <<notificationVars, serviceVars, models, forecastCache, reply, job>>

\* io.on('connection'): a new socket; socket ids are not reused
Connect(s) ==
  /\ s \notin DOMAIN inbox
  /\ rooms' = [x \in DOMAIN rooms \cup {s} |-> IF x = s THEN {} ELSE rooms[x]]
  /\ inbox' = [x \in DOMAIN inbox \cup {s} |-> IF x = s THEN <<>> ELSE inbox[x]]
  /\ SocketFrame

\* socket.on('subscribe-location')
SubscribeLocation(s, location) ==
  /\ s \in DOMAIN rooms
  /\ rooms' = [rooms EXCEPT ![s] = @ \cup {Room(location)}]
  /\ UNCHANGED inbox
  /\ SocketFrame

\* socket.on('disconnect'): the socket leaves its rooms; what its client
\* has received stays received
Disconnect(s) ==
  /\ s \in DOMAIN rooms
  /\ rooms' = [x \in DOMAIN rooms \ {s} |-> rooms[x]]
  /\ UNCHANGED inbox
  /\ SocketFrame

\* io.emit(event, data): every connected socket receives the event
Broadcast(event, data) ==
  [x \in DOMAIN inbox |->
     IF x \in DOMAIN rooms THEN Append(inbox[x], [event |-> event, data |-> data])
     ELSE inbox[x]]

SchedulerFrame ==
  UNCHANGED <<objs, subscribers, notificationHistory, calls, sendLog, response,
              script, serviceVars, models, reply, rooms>>

\* the cron expression fires: the callback runs updateAirQualityData up to
\* its await
CronTick ==
  /\ job.pc \in {"idle", "done"}
  /\ job.ticks < MaxTicks
  /\ job' = [pc |-> "updateAirQualityData", ticks |-> job.ticks + 1,
             trace |-> <<"updateAirQualityData">>]
  /\ now' = now + CronMinutes
  /\ UNCHANGED <<forecastCache, inbox>>
  /\ SchedulerFrame

\* the callback resumes after an await and runs to the next one, or to its
\* end: the next sweep; the call of generateForecasts(), which has no
\* argument; then either the catch block, or io.emit and checkAndSendAlerts
CronStep ==
  /\ job.pc \notin {"idle", "done"}
  /\ UNCHANGED now
  /\ SchedulerFrame
  /\ CASE job.pc = "updateAirQualityData" ->
            /\ job' = [job EXCEPT !.pc = "updateTempoData",
                                  !.trace = Append(@, "updateTempoData")]
            /\ UNCHANGED <<forecastCache, inbox>>
       [] job.pc = "updateTempoData" ->
            /\ job' = [job EXCEPT !.pc = "updateWeatherData",
                                  !.trace = Append(@, "updateWeatherData")]
            /\ UNCHANGED <<forecastCache, inbox>>
       [] job.pc = "updateWeatherData" ->
            /\ job' = [job EXCEPT !.pc = "generateForecasts",
                                  !.trace = Append(@, "generateForecasts")]
            /\ UNCHANGED <<forecastCache, inbox>>
       [] job.pc = "generateForecasts" ->
            LET r == generateForecasts(script, models, forecastCache, NoParams, now)
            IN IF r.threw
               THEN /\ job' = [job EXCEPT !.pc = "done", !.trace = Append(@, "catch")]
                    /\ UNCHANGED <<forecastCache, inbox>>
               ELSE /\ job' = [job EXCEPT !.pc = "checkAndSendAlerts",
                                          !.trace = @ \o <<"emit", "checkAndSendAlerts">>]
                    /\ forecastCache' = r.cache
                    /\ inbox' = Broadcast("air-quality-update", r.data)
       [] job.pc = "checkAndSendAlerts" ->
            /\ job' = [job EXCEPT !.pc = "done"]
            /\ UNCHANGED <<forecastCache, inbox>>

NextScheduler ==
  \/ \E s \in Sockets : Connect(s)
  \/ \E s \in Sockets, l \in RoomLocations : SubscribeLocation(s, l)
  \/ \E s \in Sockets : Disconnect(s)
  \/ CronTick
  \/ CronStep

SpecScheduler == InitScheduler /\ [][NextScheduler]_vars

\* C17: a run of the scheduled update ends only after the three sweeps, the
\* forecast generation, the publication of air-quality-update and the
\* hand-over to checkAndSendAlerts have taken place, in that order.
PipelineCompletes == job.pc = "done" => job.trace = PipelineSteps

-----------------------------------------------------------------------------
(* The conversions from a concentration to an AQI.  The repository holds   *)
(* three: the breakpoint tables (concentrationToAQI of unnamed/part_000    *)
(* and part_002, calculatePollutantAQI of OpenAQService), the thresholds of *)
(* services/ForecastService.js and the placeholder of                      *)
(* services/AirQualityService.js; script names the one applied.            *)
(* Concentrations are counted in tenths of the unit; the inputs are the    *)
(* multiples of one half.                                                  *)

MaxConcentration == 6100

Tenths(units) == units * 10

AqiImplementations ==
  {"unnamed/part_000", "services/ForecastService.js", "services/AirQualityService.js"}

\* "CO" has no table in part_000 and no thresholds in ForecastService.js
AqiPollutants == Pollutants \cup {"CO"}

ConcentrationSteps == {5, 10}

\* { aqiLow, aqiHigh, concLow, concHigh }, the concentrations in whole units
Row(aqiLow, aqiHigh, concLow, concHigh) ==
  [aqiLow |-> aqiLow, aqiHigh |-> aqiHigh,
   concLow |-> Tenths(concLow), concHigh |-> Tenths(concHigh)]

\* a row whose concentrations have one decimal, given in tenths
RowTenths(aqiLow, aqiHigh, concLow, concHigh) ==
  [aqiLow |-> aqiLow, aqiHigh |-> aqiHigh, concLow |-> concLow, concHigh |-> concHigh]

breakpoints ==
  "PM2.5" :> <<RowTenths(0, 50, 0, 120), RowTenths(51, 100, 121, 354),
               RowTenths(101, 150, 355, 554), RowTenths(151, 200, 555, 1504),
               RowTenths(201, 300, 1505, 2504), RowTenths(301, 400, 2505, 3504),
               RowTenths(401, 500, 3505, 5004)>>
  @@ "PM10" :> <<Row(0, 50, 0, 54), Row(51, 100, 55, 154), Row(101, 150, 155, 254),
                 Row(151, 200, 255, 354), Row(201, 300, 355, 424),
                 Row(301, 400, 425, 504), Row(401, 500, 505, 604)>>
  @@ "O3" :> <<Row(0, 50, 0, 54), Row(51, 100, 55, 70), Row(101, 150, 71, 85),
               Row(151, 200, 86, 105), Row(201, 300, 106, 200)>>
  @@ "NO2" :> <<Row(0, 50, 0, 53), Row(51, 100, 54, 100), Row(101, 150, 101, 360),
                Row(151, 200, 361, 649), Row(201, 300, 650, 1249),
                Row(301, 400, 1250, 1649), Row(401, 500, 1650, 2049)>>
  @@ "SO2" :> <<Row(0, 50, 0, 35), Row(51, 100, 36, 75), Row(101, 150, 76, 185),
                Row(151, 200, 186, 304), Row(201, 300, 305, 604)>>
  @@ "HCHO" :> <<Row(0, 50, 0, 10), Row(51, 100, 11, 20), Row(101, 150, 21, 50),
                 Row(151, 200, 51, 100), Row(201, 300, 101, 200)>>

\* Math.round(n / d) for n >= 0, d > 0: halves go up
RoundRatio(n, d) == (2 * n + d) \div (2 * d)

\* the loop over the rows of a table and the return after it
calculatePollutantAQI(concentration, rows) ==
  LET I == {i \in 1..Len(rows) :
              concentration >= rows[i].concLow /\ concentration <= rows[i].concHigh}
  IN IF I = {} THEN 500
     ELSE LET bp == rows[CHOOSE i \in I : \A j \in I : i <= j]
          IN Min(bp.aqiLow + RoundRatio((bp.aqiHigh - bp.aqiLow)
                                          * (concentration - bp.concLow),
                                        bp.concHigh - bp.concLow),
                 500)

\* concentrationToAQI of unnamed/part_000
concentrationToAQI(concentration, pollutant) ==
  IF pollutant \notin DOMAIN breakpoints THEN 0
  ELSE calculatePollutantAQI(concentration, breakpoints[pollutant])

\* the thresholds of concentrationToAQI in services/ForecastService.js
thresholds ==
  "NO2" :> [good |-> 20, moderate |-> 40, unhealthy |-> 100]
  @@ "O3" :> [good |-> 50, moderate |-> 100, unhealthy |-> 200]
  @@ "SO2" :> [good |-> 30, moderate |-> 60, unhealthy |-> 150]
  @@ "HCHO" :> [good |-> 10, moderate |-> 20, unhealthy |-> 50]
  @@ "PM2.5" :> [good |-> 12, moderate |-> 35, unhealthy |-> 55]
  @@ "PM10" :> [good |-> 54, moderate |-> 154, unhealthy |-> 254]

\* concentrationToAQI of services/ForecastService.js: the factors 2.5, 2 and
\* 1.5 applied to tenths are 25, 20 and 15 hundredths
concentrationToAQISimplified(concentration, pollutant) ==
  IF pollutant \notin DOMAIN thresholds THEN 0
  ELSE LET threshold == thresholds[pollutant]
       IN IF concentration <= Tenths(threshold.good)
          THEN RoundRatio(concentration * 25, 100)
          ELSE IF concentration <= Tenths(threshold.moderate)
          THEN 50 + RoundRatio((concentration - Tenths(threshold.good)) * 25, 100)
          ELSE IF concentration <= Tenths(threshold.unhealthy)
          THEN 100 + RoundRatio((concentration - Tenths(threshold.moderate)) * 20, 100)
          ELSE 150 + RoundRatio((concentration - Tenths(threshold.unhealthy)) * 15, 100)

\* concentrationToAQI of services/AirQualityService.js:
\* Math.round(concentration * 2), whatever the second argument is
concentrationToAQIPlaceholder(concentration, unit) ==
  RoundRatio(concentration * 20, 100)

AQI(implementation, pollutant, concentration) ==
  CASE implementation = "unnamed/part_000" -> concentrationToAQI(concentration, pollutant)
    [] implementation = "services/ForecastService.js" ->
         concentrationToAQISimplified(concentration, pollutant)
    [] implementation = "services/AirQualityService.js" ->
         concentrationToAQIPlaceholder(concentration, pollutant)

Conversion(implementation, pollutant, concentration) ==
  [op |-> "aqi", pollutant |-> pollutant, concentration |-> concentration,
   aqi |-> AQI(implementation, pollutant, concentration)]

InitAqi ==
  /\ Init!1 /\ Init!2 /\ Init!3 /\ Init!4 /\ Init!5 /\ Init!6 /\ Init!7
  /\ Init!9 /\ Init!10 /\ Init!11
  /\ InitServer!1 /\ InitServer!2 /\ InitServer!4 /\ InitServer!5 /\ InitServer!6
  /\ script \in AqiImplementations
  /\ reply \in {Conversion(script, p, 0) : p \in AqiPollutants}

\* the conversion applied to a higher concentration of the same pollutant
Convert(step) ==
  /\ reply.concentration + step <= MaxConcentration
  /\ reply' = Conversion(script, reply.pollutant, reply.concentration + step)
  /\ UNCHANGED <<notificationVars, serviceVars, models, forecastCache, rooms, inbox, job>>

NextAqi == \E step \in ConcentrationSteps : Convert(step)

SpecAqi == InitAqi /\ [][NextAqi]_vars

\* C21: every conversion of a concentration c >= 0 yields an integer AQI in
\* [0, 500], and the AQI of concentration 0 is 0, whichever implementation
\* of the repository is applied.
AqiBounded ==
  reply.op = "aqi" =>
    /\ reply.aqi \in 0..500
    /\ reply.concentration = 0 => reply.aqi = 0

\* C22: for a pollutant with a breakpoint table the AQI does not decrease
\* when the concentration grows, fractional concentrations included.
AqiMonotone ==
  [][(/\ script = "unnamed/part_000"
      /\ reply.pollutant \in DOMAIN breakpoints
      /\ reply'.concentration >= reply.concentration)
       => reply'.aqi >= reply.aqi]_vars


-----------------------------------------------------------------------------
(* AirQualityService.processGroundBasedData (unnamed/part_002): the merge  *)
(* of the EPA stations and the OpenAQ measurements into one snapshot.      *)
(* reply holds the raw data, then the snapshot made of it.  A station's    *)
(* AQI of 0 stands for a station without the AQI field.  Concentrations    *)
(* are in whole units here.                                                *)

MaxRecords == 2

\* String.prototype.toLowerCase on the pollutant names of the inputs
toLowerCase(name) ==
  CASE name = "PM2.5" -> "pm2.5"
    [] name = "O3" -> "o3"
    [] OTHER -> name

toUpperCase(name) ==
  CASE name = "pm2.5" -> "PM2.5"
    [] name = "o3" -> "O3"
    [] OTHER -> name

\* EPA AirNow observations: PM2.5 of 15 (AQI 57) or ozone of 15, with or
\* without the AQI field, near or far
EpaStations ==
  [ParameterName : {"PM2.5", "O3"}, Value : {15}, AQI : {0, 57},
   distance : {2000, 8000}]

\* OpenAQ measurements
OpenAQResults ==
  [parameter : {"pm2.5", "o3"}, value : {22}, distance : {2000, 8000}]

SeqsUpTo(S, n) == UNION {[1..k -> S] : k \in 0..n}

\* processed.pollutants[name] = entry
SetPollutant(pollutants, name, entry) ==
  [k \in (DOMAIN pollutants) \cup {name} |-> IF k = name THEN entry ELSE pollutants[k]]

getAQILevel(aqi) ==
  IF aqi <= 50 THEN "good"
  ELSE IF aqi <= 100 THEN "moderate"
  ELSE IF aqi <= 150 THEN "unhealthy-sensitive"
  ELSE IF aqi <= 200 THEN "unhealthy"
  ELSE IF aqi <= 300 THEN "very-unhealthy"
  ELSE "hazardous"

\* rawData.epa.forEach: every station overwrites the entry of its pollutant
\* and raises the overall AQI
RECURSIVE EpaLoop(_, _)
EpaLoop(processed, stations) ==
  IF stations = <<>> THEN processed
  ELSE LET station == Head(stations)
           entry == [concentration |-> station.Value, aqi |-> station.AQI,
                     source |-> "EPA"]
       IN EpaLoop(
            [processed EXCEPT
               !.pollutants = SetPollutant(@, toLowerCase(station.ParameterName), entry),
               !.aqi = IF station.AQI # 0 /\ (@ = 0 \/ station.AQI > @)
                       THEN station.AQI ELSE @],
            Tail(stations))

\* rawData.openAQ.results.forEach: a measurement is taken only if its
\* pollutant has no entry yet
RECURSIVE OpenAQLoop(_, _)
OpenAQLoop(processed, results) ==
  IF results = <<>> THEN processed
  ELSE LET measurement == Head(results)
           pollutant == toLowerCase(measurement.parameter)
           entry == [concentration |-> measurement.value, aqi |-> 0,
                     source |-> "OpenAQ"]
       IN OpenAQLoop(
            IF pollutant \in DOMAIN processed.pollutants THEN processed
            ELSE [processed EXCEPT !.pollutants = SetPollutant(@, pollutant, entry)],
            Tail(results))

\* calculateOverallAQI: concentrationToAQI is called with the key of the
\* pollutants object, the lower-case name
calculateOverallAQI(pollutants) ==
  LET aqiOf(name) == IF pollutants[name].aqi # 0 THEN pollutants[name].aqi
                     ELSE concentrationToAQI(Tenths(pollutants[name].concentration), name)
      aqiValues == {aqiOf(name) : name \in DOMAIN pollutants} \ {0}
  IN IF aqiValues = {} THEN 0 ELSE CHOOSE a \in aqiValues : \A b \in aqiValues : b <= a

processGroundBasedData(rawData) ==
  LET merged == OpenAQLoop(EpaLoop([pollutants |-> <<>>, aqi |-> 0], rawData.epa),
                           rawData.openAQ)
      aqi == IF merged.aqi = 0 THEN calculateOverallAQI(merged.pollutants)
             ELSE merged.aqi
  IN [pollutants |-> merged.pollutants, aqi |-> aqi, overallQuality |-> getAQILevel(aqi)]

InitGround ==
  /\ Init!1 /\ Init!2 /\ Init!3 /\ Init!4 /\ Init!5 /\ Init!6 /\ Init!7
  /\ Init!9 /\ Init!10 /\ Init!11
  /\ InitServer!1 /\ InitServer!2 /\ InitServer!4 /\ InitServer!5 /\ InitServer!6
  /\ script = "unnamed/part_002"
  /\ reply \in [op : {"rawData"}, epa : SeqsUpTo(EpaStations, MaxRecords),
                openAQ : SeqsUpTo(OpenAQResults, MaxRecords)]

ProcessGround ==
  /\ reply.op = "rawData"
  /\ reply' = [op |-> "snapshot", epa |-> reply.epa, openAQ |-> reply.openAQ,
               snapshot |-> processGroundBasedData(reply)]
  /\ UNCHANGED <<notificationVars, serviceVars, models, forecastCache, rooms, inbox, job>>

NextGround == ProcessGround

SpecGround == InitGround /\ [][NextGround]_vars

\* the largest AQI(p, concentration) over the pollutants of a snapshot
MaxPollutantAqi(pollutants) ==
  LET values == {concentrationToAQI(Tenths(pollutants[name].concentration),
                                    toUpperCase(name)) : name \in DOMAIN pollutants}
  IN IF values = {} THEN 0 ELSE CHOOSE a \in values : \A b \in values : b <= a

\* C23: the aqi of every snapshot is the maximum over its pollutants of
\* AQI(pollutant, concentration), and 0 with level good when it has none.
SnapshotAqiIsMax ==
  reply.op = "snapshot" =>
    /\ reply.snapshot.aqi = MaxPollutantAqi(reply.snapshot.pollutants)
    /\ DOMAIN reply.snapshot.pollutants = {} =>
         reply.snapshot.aqi = 0 /\ reply.snapshot.overallQuality = "good"

\* the input records of both providers about one pollutant
RecordsAbout(name) ==
  {[distance |-> reply.epa[i].distance, concentration |-> reply.epa[i].Value,
    source |-> "EPA"] :
     i \in {j \in 1..Len(reply.epa) : toLowerCase(reply.epa[j].ParameterName) = name}}
  \cup
  {[distance |-> reply.openAQ[i].distance, concentration |-> reply.openAQ[i].value,
    source |-> "OpenAQ"] :
     i \in {j \in 1..Len(reply.openAQ) : toLowerCase(reply.openAQ[j].parameter) = name}}

\* C28: for every pollutant the merged snapshot holds a measurement of the
\* smallest distance among the input records about it (scenario S3: OpenAQ
\* at 2000 m before EPA at 8000 m).
NearestMeasurementWins ==
  reply.op = "snapshot" =>
    \A name \in DOMAIN reply.snapshot.pollutants :
      \E r \in RecordsAbout(name) :
        /\ \A q \in RecordsAbout(name) : r.distance <= q.distance
        /\ r.concentration = reply.snapshot.pollutants[name].concentration
        /\ r.source = reply.snapshot.pollutants[name].source


-----------------------------------------------------------------------------
(* The forecast computation run twice (unnamed/part_000): each run is on a *)
(* fresh ForecastService, with the same parameters and the same clock.     *)
(* Math.random is a draw from RandomDraws, in thousandths; a run here is   *)
(* one pollutant's statisticalForecast or the AQI series of                *)
(* getMockForecastData.  Concentrations are in thousandths.                *)

MaxRunHours == 2

\* values of Math.random(), in thousandths
RandomDraws == {0, 500, 999}

\* Math.sin(h * Math.PI / 12) * 0.1, in thousandths, for h = 1, 2, 3
Trend == <<26, 50, 71>>

\* Math.sin(i * 0.3) * 20, in hundredths, for i = 1, 2, 3
HourlyVariation == <<591, 1129, 1567>>

getBaseConcentration(pollutant) ==
  CASE pollutant = "NO2" -> 20
    [] pollutant = "O3" -> 50
    [] pollutant = "SO2" -> 10
    [] pollutant = "HCHO" -> 5
    [] pollutant = "PM2.5" -> 15
    [] pollutant = "PM10" -> 25
    [] OTHER -> 10

\* statisticalForecast with the values Math.random returned, one an hour
statisticalForecastDrawn(pollutant, hours, t, draws) ==
  [h \in 1..hours |->
     [hour |-> h,
      concentration |->
        Max(0, getBaseConcentration(pollutant)
                 * (1000 + Trend[h] + ((draws[h] - 500) * 2) \div 10)),
      timestamp |-> HoursFrom(t, h), method |-> "statistical"]]

\* the AQI series of getMockForecastData with the values Math.random
\* returned for baseAQI
getMockForecastDataDrawn(hours, t, draws) ==
  [i \in 1..hours |->
     [hour |-> i, timestamp |-> HoursFrom(t, i),
      aqi |-> RoundRatio(
                Max(1000, Min(20000, ((draws[i] \div 10) + 30) * 100 + HourlyVariation[i])),
                100)]]

RunOutput(input, t, draws) ==
  IF input.method = "statistical"
  THEN statisticalForecastDrawn(input.pollutant, input.hours, t, draws)
  ELSE getMockForecastDataDrawn(input.hours, t, draws)

RunInputs ==
  [method : {"statistical", "mock"}, pollutant : {"NO2", "PM2.5"}, hours : 1..MaxRunHours]

InitRuns ==
  /\ Init!1 /\ Init!2 /\ Init!3 /\ Init!4 /\ Init!5 /\ Init!6 /\ Init!7
  /\ Init!9 /\ Init!10 /\ Init!11
  /\ InitServer!1 /\ InitServer!2 /\ InitServer!4 /\ InitServer!5 /\ InitServer!6
  /\ script = "unnamed/part_000"
  /\ reply \in [op : {"runs"}, input : RunInputs, outputs : {<<>>}]

\* one more run on a fresh instance; the clock does not move between runs
RunForecast(draws) ==
  /\ reply.op = "runs"
  /\ Len(reply.outputs) < 2
  /\ Len(draws) = reply.input.hours
  /\ reply' = [reply EXCEPT !.outputs = Append(@, RunOutput(reply.input, now, draws))]
  /\ UNCHANGED <<notificationVars, serviceVars, models, forecastCache, rooms, inbox, job>>

NextRuns == \E draws \in SeqsUpTo(RandomDraws, MaxRunHours) : RunForecast(draws)

SpecRuns == InitRuns /\ [][NextRuns]_vars

\* C24: two runs of the forecast computation with identical inputs and an
\* identical clock, each on a fresh instance, give identical outputs.
ForecastDeterministic ==
  (reply.op = "runs" /\ Len(reply.outputs) = 2) => reply.outputs[1] = reply.outputs[2]


-----------------------------------------------------------------------------
(* Parameter validation of the request handlers: GET /comprehensive        *)
(* (routes/forecast.js, with the ForecastService it requires) and          *)
(* GET /api/openaq (unnamed/part_009).  A query parameter is a text or     *)
(* absent; reply records the request, its status and the upstream          *)
(* services that were called.                                              *)

Absent == "undefined"

\* a JavaScript number: NaN or a value
NotANumber == [isNaN |-> TRUE, value |-> 0]

Number(n) == [isNaN |-> FALSE, value |-> n]

\* the numeric texts of the requests and the numbers they spell
NumberOf ==
  [text \in {"45", "95", "-74", "-200", "0", "10", "150", "24", "100"} |->
     CASE text = "45" -> 45 [] text = "95" -> 95 [] text = "-74" -> 0 - 74
       [] text = "-200" -> 0 - 200 [] text = "0" -> 0 [] text = "10" -> 10
       [] text = "150" -> 150 [] text = "24" -> 24 [] text = "100" -> 100]

\* parseFloat and parseInt of a query text
parseFloat(text) == IF text \in DOMAIN NumberOf THEN Number(NumberOf[text]) ELSE NotANumber

\* !text and text ? .. : ..
Falsy(text) == text = Absent \/ text = ""

\* a comparison with NaN is false
LessThan(a, b) == ~a.isNaN /\ ~b.isNaN /\ a.value < b.value

OpenAQQueries ==
  [lat : {Absent, "abc", "45", "95"}, lon : {Absent, "abc", "-74", "-200"},
   radius : {Absent, "abc", "0", "10", "150"}]

ComprehensiveQueries ==
  [lat : {Absent, "abc", "45", "95"}, lng : {Absent, "abc", "-74", "-200"},
   hours : {Absent, "abc", "0", "24", "100"}]

InitRequests ==
  /\ Init!1 /\ Init!2 /\ Init!3 /\ Init!4 /\ Init!5 /\ Init!6 /\ Init!7
  /\ Init!9 /\ Init!10 /\ Init!11
  /\ InitServer!2 /\ InitServer!3 /\ InitServer!4 /\ InitServer!5 /\ InitServer!6
  /\ models = Pollutants
  /\ script = "services/ForecastService.js"

RequestFrame ==
  UNCHANGED <<notificationVars, serviceVars, models, rooms, inbox, job>>

\* router.get('/') of the OpenAQ route
GetOpenAQ(query) ==
  LET latitude == parseFloat(query.lat)
      longitude == parseFloat(query.lon)
      searchRadius == IF Falsy(query.radius) THEN Number(10) ELSE parseFloat(query.radius)
      rejected ==
        \/ Falsy(query.lat) \/ Falsy(query.lon)
        \/ latitude.isNaN \/ longitude.isNaN
        \/ LessThan(latitude, Number(0 - 90)) \/ LessThan(Number(90), latitude)
        \/ LessThan(longitude, Number(0 - 180)) \/ LessThan(Number(180), longitude)
        \/ LessThan(Number(Tenths(searchRadius.value)), Number(1)) /\ ~searchRadius.isNaN
        \/ LessThan(Number(100), searchRadius)
  IN /\ reply' = [op |-> "request", route |-> "/api/openaq", query |-> query,
                  status |-> IF rejected THEN 400 ELSE 200,
                  upstream |-> IF rejected THEN {} ELSE {"openAQ"}]
     /\ UNCHANGED forecastCache
     /\ RequestFrame

\* router.get('/comprehensive') with the query it was sent
GetComprehensive(query) ==
  LET rejected == Falsy(query.lat) \/ Falsy(query.lng)
      hours == IF query.hours = Absent THEN Number(DefaultHours) ELSE parseFloat(query.hours)
      r == generateForecasts(script, models, forecastCache,
             [hours |-> hours, tempoData |-> "live", groundData |-> "live",
              weatherData |-> "live"], now)
  IN /\ reply' = [op |-> "request", route |-> "/comprehensive", query |-> query,
                  status |-> IF rejected THEN 400 ELSE IF r.threw THEN 500 ELSE 200,
                  upstream |-> IF rejected THEN {} ELSE {"tempo", "ground", "weather"}]
     /\ forecastCache' = IF rejected THEN forecastCache ELSE r.cache
     /\ RequestFrame

NextRequests ==
  \/ \E query \in OpenAQQueries : GetOpenAQ(query)
  \/ \E query \in ComprehensiveQueries : GetComprehensive(query)

SpecRequests == InitRequests /\ [][NextRequests]_vars

\* a parameter that is a number within [low, high]
InRange(text, low, high) ==
  text \in DOMAIN NumberOf /\ low <= NumberOf[text] /\ NumberOf[text] <= high

\* the request's parameters are as the handlers' contract asks; an optional
\* parameter may be absent
ValidQuery(request) ==
  /\ InRange(request.query.lat, 0 - 90, 90)
  /\ IF request.route = "/api/openaq"
     THEN /\ InRange(request.query.lon, 0 - 180, 180)
          /\ request.query.radius = Absent
             \/ (InRange(request.query.radius, 0, 100) /\ NumberOf[request.query.radius] > 0)
     ELSE /\ InRange(request.query.lng, 0 - 180, 180)
          /\ request.query.hours = Absent \/ InRange(request.query.hours, 1, 72)

\* C25: a request with an out-of-range or non-numeric parameter ends in a
\* 400 error and calls no upstream service.
InvalidRequestsRejected ==
  (reply.op = "request" /\ ~ValidQuery(reply)) =>
    (reply.status = 400 /\ reply.upstream = {})


-----------------------------------------------------------------------------
(* GET /pollutant (routes/forecast.js): the alerts of a forecast, made by  *)
(* generateForecastAlerts (unnamed/part_000), and the part of them the     *)
(* route puts into its response.  reply holds the forecast, then the       *)
(* response made of it.                                                    *)

RoutePollutants == {"NO2", "O3"}

getPollutantThreshold(pollutant) ==
  CASE pollutant = "NO2" -> 40
    [] pollutant = "O3" -> 100
    [] pollutant = "SO2" -> 60
    [] pollutant = "HCHO" -> 20
    [] pollutant = "PM2.5" -> 35
    [] pollutant = "PM10" -> 154
    [] OTHER -> 50

\* aqiForecast.forEach: the alerts about high AQI predictions
RECURSIVE HighAqiAlerts(_, _)
HighAqiAlerts(aqiForecast, i) ==
  IF i > Len(aqiForecast) THEN <<>>
  ELSE (IF aqiForecast[i] > 150
        THEN <<[type |-> "high-aqi",
                severity |-> IF aqiForecast[i] > 200 THEN "warning" ELSE "info",
                hour |-> i]>>
        ELSE <<>>) \o HighAqiAlerts(aqiForecast, i + 1)

\* forecasts[pollutant].forEach: the alerts about one pollutant's spikes
RECURSIVE SpikeAlerts(_, _, _)
SpikeAlerts(pollutant, predictions, i) ==
  IF i > Len(predictions) THEN <<>>
  ELSE (IF predictions[i] > getPollutantThreshold(pollutant)
        THEN <<[type |-> "pollutant-spike", pollutant |-> pollutant,
                severity |-> "warning", hour |-> i]>>
        ELSE <<>>) \o SpikeAlerts(pollutant, predictions, i + 1)

\* Object.keys(forecasts) in the order the pollutants were inserted
generateForecastAlerts(forecasts, aqiForecast) ==
  HighAqiAlerts(aqiForecast, 1)
    \o SpikeAlerts("NO2", forecasts["NO2"], 1)
    \o SpikeAlerts("O3", forecasts["O3"], 1)

\* alert.type === 'pollutant-warning' && alert.pollutant === pollutant
RouteKeeps(alert, pollutant) ==
  /\ alert.type = "pollutant-warning"
  /\ "pollutant" \in DOMAIN alert
  /\ alert.pollutant = pollutant

ForecastInputs ==
  UNION {[pollutant : RoutePollutants,
          forecasts : [RoutePollutants -> [1..k -> {30, 50, 120}]],
          aqi : [1..k -> {100, 180}]] : k \in 1..MaxRunHours}

InitPollutantRoute ==
  /\ Init!1 /\ Init!2 /\ Init!3 /\ Init!4 /\ Init!5 /\ Init!6 /\ Init!7
  /\ Init!9 /\ Init!10 /\ Init!11
  /\ InitServer!1 /\ InitServer!2 /\ InitServer!4 /\ InitServer!5 /\ InitServer!6
  /\ script = "unnamed/part_000"
  /\ reply \in {[op |-> "forecast", pollutant |-> f.pollutant,
                 forecasts |-> f.forecasts, aqi |-> f.aqi] : f \in ForecastInputs}

\* the construction of pollutantForecast in router.get('/pollutant')
GetPollutant ==
  /\ reply.op = "forecast"
  /\ \E alerts \in {generateForecastAlerts(reply.forecasts, reply.aqi)} :
       reply' = [op |-> "pollutantForecast", pollutant |-> reply.pollutant,
                 generated |-> alerts,
                 alerts |-> SelectSeq(alerts, LAMBDA a : RouteKeeps(a, reply.pollutant))]
  /\ UNCHANGED <<notificationVars, serviceVars, models, forecastCache, rooms, inbox, job>>

NextPollutantRoute == GetPollutant

SpecPollutantRoute == InitPollutantRoute /\ [][NextPollutantRoute]_vars

Concerns(alert, pollutant) == "pollutant" \in DOMAIN alert /\ alert.pollutant = pollutant

-----------------------------------------------------------------------------
(* analyzeForecastForAlerts over the AQI series of a forecast that was     *)
(* just generated: calculateAQIForecast (unnamed/part_000) stamps the      *)
(* prediction of hour h with the generation time plus h hours, and the     *)
(* analysis reads the clock again, lag minutes later (0 when both read the *)
(* same instant).  reply holds the forecast, then the alerts made of it.   *)

AqiLevels == {50, 100, 150, 200, 250}

DerivationThresholds ==
  {alertThresholds.aqi, [warning |-> 50, critical |-> 100, emergency |-> 150]}

\* the AQI series of a forecast generated at t whose predictions all have
\* the AQI value aqi
AqiSeries(hours, aqi, t) ==
  [h \in 1..hours |-> [hour |-> h, aqi |-> aqi, timestamp |-> HoursFrom(t, h)]]

InitDerivation ==
  /\ Init!1 /\ Init!2 /\ Init!3 /\ Init!4 /\ Init!5 /\ Init!6 /\ Init!7
  /\ Init!9 /\ Init!10 /\ Init!11
  /\ InitServer!1 /\ InitServer!2 /\ InitServer!4 /\ InitServer!5 /\ InitServer!6
  /\ script = "services/WeatherService.js"
  /\ reply \in [op : {"generated"}, hours : {1, 2, DefaultHours, MaxHours},
                aqi : AqiLevels, aqiThresholds : DerivationThresholds]

\* analyzeForecastForAlerts(forecast, preferences), lag minutes after the
\* forecast was generated
AnalyzeForecast(lag) ==
  /\ reply.op = "generated"
  /\ reply' = [op |-> "analysed", hours |-> reply.hours, aqi |-> reply.aqi,
               aqiThresholds |-> reply.aqiThresholds, lag |-> lag,
               alerts |-> analyzeForecastForAlerts(
                            [aqi |-> AqiSeries(reply.hours, reply.aqi, now),
                             pollutants |-> <<>>],
                            [aqiThresholds |-> reply.aqiThresholds,
                             pollutantThresholds |-> <<>>],
                            now + lag)]
  /\ UNCHANGED <<notificationVars, serviceVars, models, forecastCache, rooms, inbox, job>>

NextDerivation == \E lag \in Lags : AnalyzeForecast(lag)

SpecDerivation == InitDerivation /\ [][NextDerivation]_vars

\* the type the thresholds give an AQI value of at least warning
DerivedType(aqi, levels) ==
  IF aqi >= levels.emergency THEN "aqi-emergency"
  ELSE IF aqi >= levels.critical THEN "aqi-critical"
  ELSE "aqi-warning"

\* C27: the analysis of a forecast right after its generation emits exactly
\* one alert for each prediction of the hours 1..24 whose AQI is at least
\* the warning threshold, of the type the thresholds give, and no other.
AlertPerPrediction ==
  reply.op = "analysed" =>
    IF reply.aqi >= reply.aqiThresholds.warning
    THEN /\ Len(reply.alerts) = Min(reply.hours, AlertWindowHours)
         /\ \A i \in 1..Len(reply.alerts) :
              reply.alerts[i].type = DerivedType(reply.aqi, reply.aqiThresholds)
    ELSE reply.alerts = <<>>


-----------------------------------------------------------------------------
(* The caches under the scheduled update (server.js): the first three      *)
(* steps of the cron callback call updateAirQualityData, updateTempoData   *)
(* and updateWeatherData, which have no await inside; no other method      *)
(* deletes by age.  job.ticks counts the sweeps.                           *)

SweptServices == {"ground", "tempo", "weather"}

\* the sweep step of one run of the cron callback, seen from the cache of
\* the service that is followed
SweepTick ==
  /\ job.ticks < MaxTicks
  /\ job' = [job EXCEPT !.ticks = @ + 1]
  /\ cache' = IF /\ script \in SweptServices
                 /\ cache # NoEntry /\ now - cache.timestamp > cacheTimeout(script)
              THEN NoEntry ELSE cache
  /\ UNCHANGED <<fetches, fetchLog>>
  /\ UNCHANGED <<notificationVars, models, forecastCache, reply, rooms, inbox>>

NextSweep ==
  \/ Fetch
  \/ \E c \in Slots : UpstreamSucceeds(c)
  \/ \E c \in Slots : UpstreamFails(c)
  \/ SweepTick
  \/ CacheClock

SpecSweep == InitCache /\ [][NextSweep]_vars

\* C29: when the sweep step of a scheduler tick has completed, the cache of
\* no service (ground, satellite, weather, OpenAQ, forecast) holds an entry
\* older than that cache's TTL.
SweepLeavesNoExpired ==
  [][job'.ticks # job.ticks =>
       (cache' = NoEntry \/ now' - cache'.timestamp <= cacheTimeout(script))]_vars


-----------------------------------------------------------------------------
(* sendAlerts for subscribers whose channels cannot all deliver: the only  *)
(* method is email and no address was given, or email without an address   *)
(* next to SMS with a phone number.  One call at a time.                   *)

DeliveryPreferenceInputs ==
  {[methods |-> {"email"}], [methods |-> {"email", "sms"}, phone |-> "555"]}

NextDelivery ==
  \/ \E u \in Users, l \in SeqLocationInputs, p \in DeliveryPreferenceInputs :
       Free /\ subscribeToLocation(u, l, p)
  \/ \E fs \in SeqForecastArrays(now) : Free /\ Quiet /\ checkAndSendAlerts(fs) /\ Bounded
  \/ \E u \in Users : Free /\ Quiet /\ testNotification(u) /\ Bounded
  \/ \E c \in Slots : Free /\ Resume(c) /\ Bounded
  \/ \E d \in TickSteps : Free /\ Tick(d)

SpecDelivery == Init /\ [][NextDelivery]_vars

\* C30: an invocation of sendAlerts that set lastNotification or appended
\* to the notification history has made at least one channel send.
DispatchMeansSend ==
  \A i \in DOMAIN sendLog :
    (sendLog[i].wroteLast \/ sendLog[i].appended) => sendLog[i].emitted # {}

=============================================================================
